---- MODULE Spec2Model ----
(***************************************************************************)
(* Model of predictMemeDex.py: get_random_tokens -> evaluate_token (per    *)
(* token) -> max(score) -> monitor_token.                                  *)
(*                                                                         *)
(* Numbers.  The program computes in IEEE doubles.  Here a number is an    *)
(* exact rational <<n, d>> (d > 0, lowest terms); prices are integer       *)
(* valued.  The two threshold products of line 126 are the only place      *)
(* where a comparison can sit exactly on a rounding boundary, so they keep *)
(* the direction in which the double product is rounded (DropRounding,     *)
(* GainRounding).  Rounding of quotients and sums is not modelled.         *)
(***************************************************************************)
EXTENDS Integers, Sequences, FiniteSets, TLC

\* ------------------------------------------------------------------ bounds
MaxTokens == 3
MaxPolls == 8

\* ------------------------------------------------------- program constants
MONITOR_DURATION == 60
FETCH_INTERVAL == 10
INITIAL_BALANCE == 200
SAMPLE_SIZE == 15
SELL_DROP_THRESHOLD == <<95, 100>>
SELL_GAIN_THRESHOLD == <<110, 100>>

\* ---------------------------------------------------------------- rationals
Abs(x) == IF x < 0 THEN -x ELSE x

RECURSIVE Gcd(_, _)
Gcd(a, b) == IF b = 0 THEN a ELSE Gcd(b, a % b)

Norm(n, d) ==
    LET g == Gcd(Abs(n), Abs(d))
        s == IF d < 0 THEN -1 ELSE 1
    IN  <<(s * n) \div g, (s * d) \div g>>

Rat(i) == <<i, 1>>
RAdd(a, b) == Norm(a[1] * b[2] + b[1] * a[2], a[2] * b[2])
RSub(a, b) == Norm(a[1] * b[2] - b[1] * a[2], a[2] * b[2])
RMul(a, b) == Norm(a[1] * b[1], a[2] * b[2])
RDiv(a, b) == Norm(a[1] * b[2], a[2] * b[1])
RLess(a, b) == a[1] * b[2] < b[1] * a[2]
RLeq(a, b) == a[1] * b[2] <= b[1] * a[2]
RMax(a, b) == IF RLess(a, b) THEN b ELSE a

\* ------------------------------------------------------------- JSON values
\* a JSON value (or Python None) is [k |-> kind, v |-> integer]
Num(i) == [k |-> "num", v |-> i]
None == [k |-> "none", v |-> 0]
Absent == [k |-> "absent", v |-> 0]
Null == [k |-> "null", v |-> 0]
NonNumeric == [k |-> "string", v |-> 0]
ContainerNull == [k |-> "containernull", v |-> 0]
Present == [k |-> "present", v |-> 0]

\* ----------------------------------------------------------------- fetches
\* fetch_data raises a plain Exception when the status is not 200
FetchRaises(resp) == resp.status # 200

\* ---------------------------------------------------------- evaluate_token
\* except (KeyError, ZeroDivisionError, TypeError, ValueError)
CaughtByEvaluate == {"KeyError", "ZeroDivisionError", "TypeError", "ValueError"}

\* float(x.get(k, default)) on a JSON value: a number converts, null is a
\* TypeError, a non-numeric string a ValueError; .get on a container that
\* is null is an AttributeError
FloatOutcome(v) ==
    CASE v.k = "containernull" -> "AttributeError"
      [] v.k = "null" -> "TypeError"
      [] v.k = "string" -> "ValueError"
      [] OTHER -> "ok"

\* pair.get(k, default): the default only when the key is absent
GetOr(v, default) == IF v = Absent THEN default ELSE v

\* txns = pair.get("txns", {}).get("h24", {}); txns.get("buys", 0)
TxnsField(pair, v) == IF pair.txns = Absent THEN Absent ELSE v
TxnsOutcome(pair) == IF pair.txns = ContainerNull THEN "AttributeError" ELSE "ok"

\* a / b on floats
DivOutcome(b) == IF b[1] = 0 THEN "ZeroDivisionError" ELSE "ok"

SellsFloorNone(s) == s
\* max(sells_24h, 1)
SellsFloor(s) == RMax(s, Rat(1))

\* max(fdv, 1)
FdvFloor(f) == RMax(f, Rat(1))

\* pair.get("fdv", 1)
FdvDefault == 1

FirstError(outs) ==
    IF \E i \in 1..Len(outs) : outs[i] # "ok"
    THEN outs[CHOOSE i \in 1..Len(outs) :
                 outs[i] # "ok" /\ \A j \in 1..(i - 1) : outs[j] = "ok"]
    ELSE "ok"

\* the numbers of lines 57-73, read only when the conversions succeed
Liquidity(pair) == Rat(GetOr(pair.liquidity, Num(0)).v)
Volume24h(pair) == Rat(GetOr(pair.volume, Num(0)).v)
Buys24h(pair) == Rat(GetOr(TxnsField(pair, pair.buys), Num(0)).v)
Sells24h(pair) == Rat(GetOr(TxnsField(pair, pair.sells), Num(0)).v)
Fdv(pair) == Rat(GetOr(pair.fdv, Num(FdvDefault)).v)
PriceChange24h(pair) == Rat(GetOr(pair.priceChange, Num(0)).v)

\* the exceptions lines 57-90 can raise, in program order
ExtractionOutcome(pair) ==
    FirstError(<<
        FloatOutcome(pair.liquidity),
        FloatOutcome(pair.volume),
        TxnsOutcome(pair),
        FloatOutcome(TxnsField(pair, pair.buys)),
        FloatOutcome(TxnsField(pair, pair.sells)),
        IF FloatOutcome(TxnsField(pair, pair.sells)) = "ok"
            THEN DivOutcome(SellsFloor(Sells24h(pair))) ELSE "ok",
        FloatOutcome(pair.fdv),
        FloatOutcome(pair.priceChange),
        FloatOutcome(GetOr(pair.marketCap, GetOr(pair.fdv, Num(FdvDefault)))),
        IF FloatOutcome(pair.fdv) = "ok"
            THEN DivOutcome(FdvFloor(Fdv(pair))) ELSE "ok",
        IF pair.symbol = Absent THEN "KeyError" ELSE "ok"
    >>)

\* lines 64 and 77-82
Score(pair) ==
    LET buy_sell_ratio == RDiv(Buys24h(pair), SellsFloor(Sells24h(pair)))
        weighted ==
            RAdd(RAdd(RMul(Liquidity(pair), <<4, 10>>),
                      RMul(Volume24h(pair), <<3, 10>>)),
                 RAdd(RMul(buy_sell_ratio, <<2, 10>>),
                      RMul(PriceChange24h(pair), <<1, 10>>)))
    IN  RDiv(weighted, FdvFloor(Fdv(pair)))

NoResult == [kind |-> "none"]
Raised(exc) == [kind |-> "raise", exc |-> exc]

\* evaluate_token(token, session) for the details response resp
evaluate_token(token, resp) ==
    IF FetchRaises(resp) THEN Raised("Exception")
    ELSE IF resp.pairs \in {"absent", "null", "empty"} THEN NoResult
    ELSE LET out == ExtractionOutcome(resp.pair) IN
         IF out = "ok"
         THEN [kind |-> "ok", tokenAddress |-> token,
               tokenName |-> resp.pair.symbol, score |-> Score(resp.pair)]
         ELSE IF out \in CaughtByEvaluate THEN NoResult
         ELSE Raised(out)

\* ------------------------------------------------------------------ selector
KeyGreaterOrEqual(a, b) == RLeq(b, a)
\* max(..., key=score) replaces its candidate only for a strictly larger key
KeyGreater(a, b) == RLess(b, a)

RECURSIVE MaxScan(_, _, _)
MaxScan(seq, i, b) ==
    IF i > Len(seq) THEN b
    ELSE MaxScan(seq, i + 1,
                 IF KeyGreater(seq[i].score, seq[b].score) THEN i ELSE b)

\* best_token = max(evaluated_tokens, key=lambda x: x["score"])
BestToken(seq) == seq[MaxScan(seq, 2, 1)]

NoCandidatesNever(seq) == FALSE
\* if not evaluated_tokens
NoCandidates(seq) == seq = <<>>

\* ------------------------------------------------------------ monitor_token
\* the exception raised by lines 110-115 for the response resp, or "ok"
PriceOutcome(resp) ==
    CASE FetchRaises(resp) -> "Exception"
      [] resp.pairs = "absent" -> "KeyError"
      [] resp.pairs = "null" -> "TypeError"
      [] resp.pairs = "empty" -> "IndexError"
      [] resp.pair.symbol.k = "absent" -> "KeyError"
      [] resp.pair.priceUsd.k = "absent" -> "KeyError"
      [] resp.pair.priceUsd.k = "null" -> "TypeError"
      [] resp.pair.priceUsd.k = "string" -> "ValueError"
      [] OTHER -> "ok"

\* direction in which the double product buy_price * 0.95 is rounded,
\* relative to the exact value 95 * buy_price / 100
DropRounding(b) ==
    CASE b \in {-100, 0, 95, 100, 110} -> 0
      [] b \in {94, 109, 111} -> -1

\* direction in which the double product buy_price * 1.10 is rounded
GainRounding(b) ==
    CASE b = 0 -> 0
      [] b = -100 -> -1
      [] b \in {94, 95, 100, 109, 110, 111} -> 1

\* buy_price * SELL_DROP_THRESHOLD, in units of 1/200 plus the rounding
DropLimit(b) == 2 * SELL_DROP_THRESHOLD[1] * b + DropRounding(b)
\* buy_price * SELL_GAIN_THRESHOLD, in units of 1/200 plus the rounding
GainLimit(b) == 2 * SELL_GAIN_THRESHOLD[1] * b + GainRounding(b)

SellConditionStrict(price, b) ==
    2 * SELL_DROP_THRESHOLD[2] * price < DropLimit(b)
        \/ 2 * SELL_GAIN_THRESHOLD[2] * price > GainLimit(b)
\* price <= buy_price * SELL_DROP_THRESHOLD or price >= buy_price * SELL_GAIN_THRESHOLD
SellCondition(price, b) ==
    2 * SELL_DROP_THRESHOLD[2] * price <= DropLimit(b)
        \/ 2 * SELL_GAIN_THRESHOLD[2] * price >= GainLimit(b)

NeedsBuyAlways(bp) == TRUE
\* if buy_price is None
NeedsBuy(bp) == bp = None

LoopWhileWithinDuration(t) == t < MONITOR_DURATION
\* while True
LoopCondition(t) == TRUE

AfterExceptionRetry == "running"
\* except Exception: print; return
AfterException == "returned"

\* ------------------------------------------------------------------- inputs
Pair(liq, vol, txns, buys, sells, fdv, chg, mcap, sym, price) ==
    [liquidity |-> liq, volume |-> vol, txns |-> txns, buys |-> buys,
     sells |-> sells, fdv |-> fdv, priceChange |-> chg, marketCap |-> mcap,
     symbol |-> sym, priceUsd |-> price]

EmptyPair ==
    Pair(Absent, Absent, Absent, Absent, Absent, Absent, Absent, Absent,
         Absent, Absent)

Response(status, pairs, pair) == [status |-> status, pairs |-> pairs, pair |-> pair]

\* a pair that carries only liquidity.usd, fdv and baseToken.symbol
LiquidityPair(liq, fdv) == [EmptyPair EXCEPT !.liquidity = liq, !.fdv = fdv, !.symbol = Present]

\* details responses offered to the evaluation loop of main
DetailResponses ==
    { Response(500, "absent", EmptyPair),
      Response(200, "absent", EmptyPair),
      Response(200, "empty", EmptyPair),
      Response(200, "list", LiquidityPair(NonNumeric, Num(4))),
      Response(200, "list", LiquidityPair(ContainerNull, Num(4))),
      Response(200, "list", LiquidityPair(Num(1), Num(4))),
      Response(200, "list", LiquidityPair(Num(5), Num(4))),
      Response(200, "list", LiquidityPair(Num(3), Num(4))) }

\* pair snapshots offered to evaluate_token on its own
SnapshotPairs ==
    { Pair(liq, vol, txns, buys, sells, fdv, chg, Absent, sym, Absent) :
        liq \in {Absent, Num(0), Num(1000), NonNumeric, ContainerNull},
        vol \in {Absent, Num(500)},
        txns \in {Absent, Present},
        buys \in {Absent, Num(10)},
        sells \in {Absent, Num(0), Num(5)},
        fdv \in {Absent, Num(0), Num(2000), Null},
        chg \in {Absent, Num(3), Num(-40)},
        sym \in {Absent, Present} }

PriceVals == {-100, 0, 94, 95, 100, 109, 110, 111}

PricePair(price) == [EmptyPair EXCEPT !.symbol = Present, !.priceUsd = price]

\* details responses offered to the polls of monitor_token
MonitorResponses ==
    { Response(500, "absent", EmptyPair),
      Response(200, "absent", EmptyPair),
      Response(200, "empty", EmptyPair),
      Response(200, "list", PricePair(NonNumeric)) }
    \cup { Response(200, "list", PricePair(Num(p))) : p \in PriceVals }

ListingResponses ==
    [status : {200, 500}, isList : BOOLEAN, len : 0..MaxTokens]

\* -------------------------------------------------------------------- state
VARIABLES
    pc,               \* position of main: start, evaluating, monitoring, done, crashed
    n_tokens,         \* len(random_tokens); the sampled tokens are 1..n_tokens
    idx,              \* the token the evaluation loop is at
    evaluated_tokens, \* the list built by main
    best_token,       \* tokenAddress handed to monitor_token, 0 if none
    mon,              \* position of monitor_token: idle, running, returned
    buy_price, purchased_amount, current_balance,
    elapsed,          \* seconds slept by the monitor loop
    polls,            \* fetches issued by monitor_token
    buys, sells,      \* "Bought" and "Sold" lines printed
    fetches,          \* fetch_data calls issued by the run
    lastEval,         \* last evaluate_token call: response and result
    lastPoll          \* last monitor iteration: what it did

vars == <<pc, n_tokens, idx, evaluated_tokens, best_token, mon, buy_price,
          purchased_amount, current_balance, elapsed, polls, buys, sells,
          fetches, lastEval, lastPoll>>

mainVars == <<n_tokens, idx, evaluated_tokens, best_token, lastEval>>
monitorVars == <<mon, buy_price, purchased_amount, current_balance, elapsed,
                 polls, buys, sells, lastPoll>>

NoEval == [resp |-> Response(0, "absent", EmptyPair), result |-> [kind |-> "pending"]]
NoPoll == [kind |-> "none", exc |-> "", price |-> 0, bought |-> FALSE, sold |-> FALSE]

InitCommon ==
    /\ n_tokens = 0 /\ idx = 0 /\ evaluated_tokens = <<>> /\ best_token = 0
    /\ mon = "idle"
    /\ buy_price = None /\ purchased_amount = Rat(0)
    /\ current_balance = Rat(INITIAL_BALANCE)
    /\ elapsed = 0 /\ polls = 0 /\ buys = 0 /\ sells = 0 /\ fetches = 0
    /\ lastPoll = NoPoll

Init == pc = "start" /\ lastEval = NoEval /\ InitCommon

Min(a, b) == IF a < b THEN a ELSE b

\* get_random_tokens, called from main
GetRandomTokens ==
    /\ pc = "start"
    /\ \E resp \in ListingResponses :
        /\ fetches' = fetches + 1
        /\ IF FetchRaises(resp) \/ ~resp.isList
           THEN pc' = "crashed" /\ UNCHANGED <<n_tokens, idx>>
           ELSE /\ n_tokens' = Min(resp.len, SAMPLE_SIZE)
                /\ idx' = 1
                /\ pc' = "evaluating"
    /\ UNCHANGED <<evaluated_tokens, best_token, lastEval>>
    /\ UNCHANGED monitorVars

\* one iteration of the for loop of main
EvaluateNext ==
    /\ pc = "evaluating" /\ idx <= n_tokens
    /\ \E resp \in DetailResponses :
        LET evaluated_token == evaluate_token(idx, resp) IN
        /\ fetches' = fetches + 1
        /\ lastEval' = [resp |-> resp, result |-> evaluated_token]
        /\ IF evaluated_token.kind = "raise"
           THEN pc' = "crashed" /\ UNCHANGED <<idx, evaluated_tokens>>
           ELSE /\ pc' = pc
                /\ idx' = idx + 1
                /\ evaluated_tokens' =
                      IF evaluated_token.kind = "ok"
                      THEN Append(evaluated_tokens, evaluated_token)
                      ELSE evaluated_tokens
    /\ UNCHANGED <<n_tokens, best_token>>
    /\ UNCHANGED monitorVars

\* main after the loop: no candidate, or select and enter monitor_token
SelectBest ==
    /\ pc = "evaluating" /\ idx > n_tokens
    /\ IF NoCandidates(evaluated_tokens)
       THEN pc' = "done" /\ UNCHANGED <<best_token, mon>>
       ELSE IF evaluated_tokens = <<>>   \* max() of an empty list: ValueError
       THEN pc' = "crashed" /\ UNCHANGED <<best_token, mon>>
       ELSE /\ best_token' = BestToken(evaluated_tokens).tokenAddress
            /\ pc' = "monitoring"
            /\ mon' = IF LoopCondition(0) THEN "running" ELSE "returned"
    /\ UNCHANGED <<n_tokens, idx, evaluated_tokens, lastEval, fetches>>
    /\ UNCHANGED <<buy_price, purchased_amount, current_balance, elapsed,
                   polls, buys, sells, lastPoll>>

\* one iteration of the while loop of monitor_token
MonitorPoll ==
    /\ pc = "monitoring" /\ mon = "running" /\ polls < MaxPolls
    /\ \E resp \in MonitorResponses :
        LET out == PriceOutcome(resp)
            price == resp.pair.priceUsd.v
            buying == NeedsBuy(buy_price)
            bp == IF buying THEN Num(price) ELSE buy_price
            pa == IF buying THEN RDiv(current_balance, Rat(price))
                  ELSE purchased_amount
            profit == RMul(RSub(Rat(price), Rat(bp.v)), pa)
        IN
        /\ fetches' = fetches + 1
        /\ polls' = polls + 1
        /\ IF out # "ok"
           THEN /\ mon' = AfterException
                /\ lastPoll' = [NoPoll EXCEPT !.kind = "error", !.exc = out]
                /\ UNCHANGED <<buy_price, purchased_amount, current_balance,
                               elapsed, buys, sells>>
           ELSE IF buying /\ price = 0
           THEN /\ buy_price' = bp
                /\ mon' = AfterException
                /\ lastPoll' = [kind |-> "error", exc |-> "ZeroDivisionError",
                                price |-> price, bought |-> FALSE, sold |-> FALSE]
                /\ UNCHANGED <<purchased_amount, current_balance, elapsed,
                               buys, sells>>
           ELSE /\ buy_price' = bp
                /\ purchased_amount' = pa
                /\ buys' = IF buying THEN buys + 1 ELSE buys
                /\ IF SellCondition(price, bp.v)
                   THEN /\ current_balance' = RAdd(current_balance, profit)
                        /\ sells' = sells + 1
                        /\ mon' = "returned"
                        /\ elapsed' = elapsed
                   ELSE /\ elapsed' = elapsed + FETCH_INTERVAL
                        /\ mon' = IF LoopCondition(elapsed') THEN "running"
                                  ELSE "returned"
                        /\ UNCHANGED <<current_balance, sells>>
                /\ lastPoll' = [kind |-> "ok", exc |-> "", price |-> price,
                                bought |-> buying,
                                sold |-> SellCondition(price, bp.v)]
    /\ pc' = IF mon' = "returned" THEN "done" ELSE pc
    /\ UNCHANGED mainVars

Next == GetRandomTokens \/ EvaluateNext \/ SelectBest \/ MonitorPoll

Spec == Init /\ [][Next]_vars

\* ---------------------------------------- evaluate_token on its own snapshots
InitEval ==
    /\ pc = "call"
    /\ \E pair \in SnapshotPairs :
         lastEval = [resp |-> Response(200, "list", pair),
                     result |-> [kind |-> "pending"]]
    /\ InitCommon

EvaluateCall ==
    /\ pc = "call"
    /\ lastEval' = [lastEval EXCEPT !.result = evaluate_token(1, lastEval.resp)]
    /\ pc' = "returned"
    /\ UNCHANGED <<n_tokens, idx, evaluated_tokens, best_token, fetches>>
    /\ UNCHANGED monitorVars

NextEval == EvaluateCall

SpecEval == InitEval /\ [][NextEval]_vars

\* =================================================================== claims
Returned == mon = "returned"
Holding == mon = "running" /\ buy_price # None

\* the sell comparison of the claims for bought price b and price p: the
\* thresholds 0.95 and 1.10 as the double products of the program
SellsAt(p, b) ==
    200 * p <= 190 * b + DropRounding(b) \/ 200 * p >= 220 * b + GainRounding(b)

\* C1 as stated: a monitor run that has terminated has made exactly one buy
\* and exactly one sell.
C1_OneBuyOneSellAtEnd == Returned => (buys = 1 /\ sells = 1)

\* C1 amended: a monitor run that has terminated either ended through the
\* sell condition, with exactly one buy and then exactly one sell, or ended
\* through an exception in a poll, with at most one buy and no sell.
C1_EndBySellOrError ==
    Returned =>
        \/ lastPoll.kind = "ok" /\ lastPoll.sold /\ buys = 1 /\ sells = 1
        \/ lastPoll.kind = "error" /\ buys <= 1 /\ sells = 0

C1_Witness == Returned /\ buys = 1 /\ sells = 1 /\ polls >= 3

\* C2: a token whose evaluation fails yields "no result" and the batch goes
\* on: the failure never leaves main crashed.
C2_FailureNeverAborts ==
    (pc # "start" /\ lastEval.result.kind \notin {"pending", "ok"})
        => (lastEval.result.kind = "none" /\ pc # "crashed")

C4_ErrorClosesWithoutSell ==
    [][ /\ (polls' = polls + 1 /\ lastPoll'.kind = "error") =>
            /\ mon' = "returned"
            /\ sells' = sells
            /\ current_balance' = current_balance
        /\ Returned => (fetches' = fetches /\ polls' = polls)
      ]_vars

C4_Witness ==
    /\ Returned /\ lastPoll.kind = "error" /\ lastPoll.exc = "Exception"
    /\ buy_price # None /\ buys = 1 /\ sells = 0 /\ polls >= 2

\* C5: the poll that buys never sells, whatever price it fetched.
C5_BuyPollNeverSells == ~(lastPoll.bought /\ lastPoll.sold)

C7_FirstMaximum ==
    best_token # 0 =>
        /\ \E i \in 1..Len(evaluated_tokens) :
            /\ evaluated_tokens[i].tokenAddress = best_token
            /\ \A j \in 1..Len(evaluated_tokens) :
                 RLeq(evaluated_tokens[j].score, evaluated_tokens[i].score)
            /\ \A j \in 1..(i - 1) :
                 RLess(evaluated_tokens[j].score, evaluated_tokens[i].score)
        /\ ( /\ Len(evaluated_tokens) = 3
             /\ evaluated_tokens[1].score = <<1, 10>>
             /\ evaluated_tokens[2].score = <<1, 2>>
             /\ evaluated_tokens[3].score = <<3, 10>> )
           => best_token = evaluated_tokens[2].tokenAddress

C7_Witness ==
    /\ best_token # 0 /\ Len(evaluated_tokens) = 3
    /\ evaluated_tokens[1].score = <<3, 10>>
    /\ evaluated_tokens[2].score = <<1, 2>>
    /\ evaluated_tokens[3].score = <<1, 2>>
    /\ best_token = evaluated_tokens[2].tokenAddress

\* the value the claim gives a field: the number, or the default if absent
ClaimValue(v, default) == IF v.k = "num" THEN v.v ELSE default
ClaimMax(a, b) == IF a >= b THEN a ELSE b
ValidSnapshot(pair) ==
    /\ \A v \in {pair.liquidity, pair.volume, pair.fdv, pair.priceChange} :
         v.k \in {"num", "absent"}
    /\ pair.txns.k \in {"present", "absent"}
    /\ pair.txns.k = "present" =>
         (pair.buys.k \in {"num", "absent"} /\ pair.sells.k \in {"num", "absent"})
    /\ pair.symbol.k = "present"

\* C8: for a valid snapshot the score is (liquidity*0.4 + volume24h*0.3 +
\* buys24h/max(sells24h,1)*0.2 + priceChange24h*0.1) / max(fdv,1), absent
\* fields taken as 0 and absent fdv as 1; sells24h = 0 and fdv = 0 raise
\* nothing.  liquidity 1000, volume 500, buys 10, sells 5, fdv 2000,
\* priceChange 3 score 0.27535.
C8_ScoreFormula ==
    (pc = "returned" /\ ValidSnapshot(lastEval.resp.pair)) =>
        LET pair == lastEval.resp.pair
            hasTxns == pair.txns.k = "present"
            l == ClaimValue(pair.liquidity, 0)
            v == ClaimValue(pair.volume, 0)
            b == IF hasTxns THEN ClaimValue(pair.buys, 0) ELSE 0
            s == IF hasTxns THEN ClaimValue(pair.sells, 0) ELSE 0
            f == ClaimValue(pair.fdv, 1)
            c == ClaimValue(pair.priceChange, 0)
            S == ClaimMax(s, 1)
            F == ClaimMax(f, 1)
            \* the formula over the common denominator 10 * S * F
            num == (4 * l + 3 * v + c) * S + 2 * b
            den == 10 * S * F
            r == lastEval.result
        IN  /\ r.kind = "ok"
            /\ r.score[2] > 0
            /\ r.score[1] * den = num * r.score[2]
            /\ (l = 1000 /\ v = 500 /\ b = 10 /\ s = 5 /\ f = 2000 /\ c = 3)
                 => r.score[1] * 100000 = 27535 * r.score[2]

C8_Witness ==
    /\ pc = "returned" /\ lastEval.result.kind = "ok"
    /\ lastEval.resp.pair.txns = Present
    /\ lastEval.resp.pair.sells = Num(0)
    /\ lastEval.resp.pair.buys = Num(10)
    /\ lastEval.resp.pair.fdv = Num(0)
    /\ lastEval.resp.pair.liquidity = Absent
    /\ lastEval.resp.pair.volume = Absent
    /\ lastEval.resp.pair.priceChange = Num(3)
    /\ lastEval.result.score = <<23, 10>>

\* C9: with an empty evaluated list main ends without an exception: nothing
\* is selected, the monitor is not started and no fetch follows.
C9_EmptyEndsGracefully ==
    [][ /\ (pc = "evaluating" /\ idx > n_tokens /\ evaluated_tokens = <<>>) =>
            /\ pc' = "done" /\ mon' = "idle" /\ best_token' = 0
            /\ fetches' = fetches /\ polls' = 0
        /\ (pc = "done" /\ evaluated_tokens = <<>>) =>
            (fetches' = fetches /\ mon' = "idle")
      ]_vars

C9_Witness ==
    /\ pc = "done" /\ evaluated_tokens = <<>> /\ n_tokens >= 2
    /\ mon = "idle" /\ best_token = 0 /\ fetches = 1 + n_tokens

\* C10: buy_price and purchased_amount, once set by the first price, never
\* change; at most one buy and one sell, no sell before the buy; the balance
\* differs from INITIAL_BALANCE only after the sell.
C10_BuyOnceSellOnce ==
    [][ /\ buy_price # None =>
            (buy_price' = buy_price /\ purchased_amount' = purchased_amount)
        /\ buys' <= 1 /\ sells' <= 1 /\ sells' <= buys'
        /\ buys' >= buys /\ sells' >= sells
        /\ current_balance' # current_balance => sells' = sells + 1
        /\ current_balance' # Rat(INITIAL_BALANCE) => sells' = 1
      ]_vars

C10_Witness ==
    /\ Returned /\ buys = 1 /\ sells = 1 /\ polls >= 3
    /\ current_balance # Rat(INITIAL_BALANCE)
    /\ buy_price = Num(100) /\ purchased_amount = Rat(2)

====
